---- MODULE Spec2Model ----
(***************************************************************************)
(* Model of threestudio/systems/prolificzero123.py: ProlificZero123, the   *)
(* two-stage system whose configure() may initialise the geometry from a   *)
(* coarse-stage checkpoint and whose training_step() composes the loss.    *)
(* Tensors are abstracted to small integers plus one NaN value; names of   *)
(* dictionary entries are sequences of tokens so that startswith() and     *)
(* replace() are computed rather than assumed.                             *)
(***************************************************************************)
EXTENDS Integers, Sequences, FiniteSets, TLC

\* ------------------------------------------------------------------------
\* Bounds
\* ------------------------------------------------------------------------
MaxStep == 1        \* true_global_step ranges over 0..MaxStep
MaxFreq == 2        \* cfg.guidance_eval_freq ranges over -1..MaxFreq
MaxLambda == 2      \* a non-zero weight C(cfg.loss.lambda_X) takes this value
MaxVal == 2         \* the finite value a term takes

\* ------------------------------------------------------------------------
\* Python values
\* ------------------------------------------------------------------------
None == "None"

\* Optional[str] values of cfg.from_coarse and cfg.weights
OptStr == {None, "", "ckpt"}

\* bool(x) for an Optional[str]
Truthy(x) == x # None /\ x # ""

EmptyDict == [k \in {} |-> 0]

\* dict.update: the entries of o are written over those of d
DictUpdate_KeepOld(d, o) ==
    [k \in (DOMAIN d) \cup (DOMAIN o) |-> IF k \in DOMAIN d THEN d[k] ELSE o[k]]

DictUpdate(d, o) ==
    [k \in (DOMAIN d) \cup (DOMAIN o) |-> IF k \in DOMAIN o THEN o[k] ELSE d[k]]

\* ------------------------------------------------------------------------
\* Names of dictionary entries, as token sequences
\* ------------------------------------------------------------------------
loss_rgb == <<"loss_", "rgb">>
loss_mask == <<"loss_", "mask">>
loss_depth == <<"loss_", "depth">>
loss_sds == <<"loss_", "sds">>
loss_orient == <<"loss_", "orient">>
loss_sparsity == <<"loss_", "sparsity">>
loss_opaque == <<"loss_", "opaque">>
loss_z_variance == <<"loss_", "z_variance">>
loss_normal_consistency == <<"loss_", "normal_consistency">>
grad_norm == <<"grad_norm">>
min_step == <<"min_step">>

lambda_rgb == <<"lambda_", "rgb">>
lambda_mask == <<"lambda_", "mask">>
lambda_depth == <<"lambda_", "depth">>
lambda_sds == <<"lambda_", "sds">>
lambda_orient == <<"lambda_", "orient">>
lambda_sparsity == <<"lambda_", "sparsity">>
lambda_opaque == <<"lambda_", "opaque">>
lambda_z_variance == <<"lambda_", "z_variance">>
lambda_normal_consistency == <<"lambda_", "normal_consistency">>

\* the keys of cfg.loss
LambdaNames ==
    { lambda_rgb, lambda_mask, lambda_depth, lambda_sds, lambda_orient,
      lambda_sparsity, lambda_opaque, lambda_z_variance, lambda_normal_consistency }

\* the entries whose value a step can compute or receive
TermNames ==
    { loss_rgb, loss_mask, loss_depth, loss_sds, loss_orient, loss_sparsity,
      loss_opaque, loss_z_variance, loss_normal_consistency, grad_norm, min_step }

\* the dictionaries the guidance model returns (keys in order)
GuidanceOuts == { <<loss_sds>>, <<grad_norm, loss_sds, min_step>> }

\* name.startswith("loss_")
StartsWithLoss(name) == Len(name) > 0 /\ name[1] = "loss_"

\* name.replace("loss_", "lambda_"): every occurrence is replaced
ReplaceLoss(name) ==
    [i \in 1 .. Len(name) |-> IF name[i] = "loss_" THEN "lambda_" ELSE name[i]]

\* f"train/{name}"
TrainKey(name) == <<"train/">> \o name

\* ------------------------------------------------------------------------
\* Tensor scalars: integers and NaN
\* ------------------------------------------------------------------------
\* the mean of an empty selection (line 203), 0/0 (line 188), mse of nothing (line 150)
NaN == -999

\* the terms whose value can be NaN
NaNTerms == { loss_z_variance, loss_orient, loss_depth }

\* the finite values of a term
Values == { MaxVal }

FAdd(a, b) == IF a = NaN \/ b = NaN THEN NaN ELSE a + b

FMul(a, b) == IF a = NaN \/ b = NaN THEN NaN ELSE a * b

\* Python's a % b for b # 0: the result has the sign of b
PyMod(a, b) == IF b > 0 THEN a % b ELSE 0 - ((0 - a) % (0 - b))

\* ------------------------------------------------------------------------
\* Configuration
\* ------------------------------------------------------------------------
\* cfg.geometry_type / cfg.geometry of this run
GeometryType == "refine-type"
GeometryCfg == [isosurface_resolution |-> 3]

\* geometry_type / geometry recorded in the coarse run's parsed.yaml
CoarseGeometryType == "coarse-type"
CoarseGeometryCfg == [isosurface_threshold |-> 1, radius |-> 1]

\* values of cfg.coarse_geometry_override
Overrides ==
    { EmptyDict,
      [isosurface_threshold |-> 2],
      [isosurface_threshold |-> 2, n_feature_dims |-> 3] }

Configs ==
    [ refinement : BOOLEAN,
      from_coarse : OptStr,
      weights : OptStr,
      inherit_coarse_texture : BOOLEAN,
      coarse_geometry_override : Overrides,
      guidance_eval_freq : -1 .. MaxFreq ]

\* ------------------------------------------------------------------------
\* Sub-models
\* ------------------------------------------------------------------------
NoGeometry == [obj |-> "none", type |-> "none", cfg |-> EmptyDict, net |-> "none"]

\* threestudio.find(type)(cfg): a freshly constructed geometry
NewGeometry(obj, type, gcfg) ==
    [obj |-> obj, type |-> type, cfg |-> gcfg, net |-> "init"]

\* the state dict of the checkpoint written over the geometry's parameters
LoadGeometryWeights(g) == [g EXCEPT !.net = "coarse_trained"]

\* threestudio.find(type).create_from(other, cfg, copy_net)
CreateFrom(type, other, gcfg, copy_net) ==
    [obj |-> "refined", type |-> type, cfg |-> gcfg,
     net |-> IF copy_net THEN other.net ELSE "init"]

\* no training_step has run
NoInput == [lam |-> EmptyDict, val |-> EmptyDict, has_normal |-> FALSE, guidance_out |-> <<>>]

NoBackground == [built |-> FALSE, requires_grad |-> TRUE, params |-> "none"]
NoRenderer == [built |-> FALSE, geometry |-> NoGeometry]

VARIABLES
    cfg,               \* self.cfg
    resumed,           \* self.resumed
    pc,                \* position inside configure()
    background,        \* self.background
    geometry,          \* self.geometry
    geometry_refine,   \* local geometry_refine of configure()
    renderer,          \* self.renderer
    calls,             \* calls made by configure(), in order
    true_global_step,  \* self.true_global_step
    status,            \* "idle", "returned" or "raised": outcome of training_step
    inp,               \* inputs of the last training_step
    loss,              \* local loss of the last training_step
    added,             \* names of the terms added to loss, in order
    logged,            \* keys passed to self.log
    renders,           \* batches rendered by self(batch), in order
    ref_read,          \* batch["mask"], ["rgb"], ["depth"] were read
    guidance_called,   \* self.guidance was called
    guidance_flag,     \* the guidance_eval argument of that call
    save_called        \* guidance_evaluation_save was called

confVars == <<cfg, resumed, pc, background, geometry, geometry_refine, renderer, calls>>
trainVars == <<true_global_step, status, inp, loss, added, logged, renders,
               ref_read, guidance_called, guidance_flag, save_called>>
vars == <<confVars, trainVars>>

Call(op) == [op |-> op, geom |-> geometry.obj]

\* ------------------------------------------------------------------------
\* configure()
\* ------------------------------------------------------------------------
\* the condition of the if at lines 46-51
FromCoarseCond_NoResumeCheck(c, r) ==
    /\ c.refinement
    /\ Truthy(c.from_coarse)
    /\ ~Truthy(c.weights)

FromCoarseCond(c, r) ==
    /\ c.refinement
    /\ Truthy(c.from_coarse)
    /\ ~Truthy(c.weights)
    /\ ~r

\* the copy_net argument of create_from, line 78
CopyNetArg_Always(c) == TRUE

CopyNetArg(c) == c.inherit_coarse_texture

\* whether the background is frozen, line 43
FreezeBackground_OnCoarsePath(c, r) == FromCoarseCond(c, r)

FreezeBackground(c, r) == c.refinement

IdleTrain ==
    /\ true_global_step = 0
    /\ status = "idle"
    /\ inp = NoInput
    /\ loss = 0
    /\ added = <<>>
    /\ logged = {}
    /\ renders = <<>>
    /\ ref_read = FALSE
    /\ guidance_called = FALSE
    /\ guidance_flag = FALSE
    /\ save_called = FALSE

Init ==
    /\ cfg \in Configs
    /\ resumed \in BOOLEAN
    /\ pc = "start"
    /\ background = NoBackground
    /\ geometry = NoGeometry
    /\ geometry_refine = NoGeometry
    /\ renderer = NoRenderer
    /\ calls = <<>>
    /\ IdleTrain

\* lines 39-44: material and background, frozen in the refinement stage
ConfigureBackground ==
    /\ pc = "start"
    /\ background' = [built |-> TRUE,
                      requires_grad |-> ~FreezeBackground(cfg, resumed),
                      params |-> "init"]
    /\ pc' = "branch"
    /\ UNCHANGED <<cfg, resumed, geometry, geometry_refine, renderer, calls, trainVars>>

\* lines 52-67: the coarse run's config is loaded and its geometry constructed
ConstructCoarse ==
    /\ pc = "branch"
    /\ FromCoarseCond(cfg, resumed)
    /\ geometry' = NewGeometry("coarse", CoarseGeometryType,
                        DictUpdate(CoarseGeometryCfg, cfg.coarse_geometry_override))
    /\ calls' = calls \o << Call("load_config"), Call("construct_coarse") >>
    /\ pc' = "coarse_built"
    /\ UNCHANGED <<cfg, resumed, background, geometry_refine, renderer, trainVars>>

\* line 71: self.load_weights(self.cfg.from_coarse)
LoadWeights ==
    /\ pc = "coarse_built"
    /\ calls' = Append(calls, Call("load_weights"))
    /\ geometry' = LoadGeometryWeights(geometry)
    /\ background' = [background EXCEPT !.params = "coarse"]
    /\ pc' = "loaded"
    /\ UNCHANGED <<cfg, resumed, geometry_refine, renderer, trainVars>>

\* lines 74-79: the refined geometry is created from the coarse one
CreateRefined ==
    /\ pc = "loaded"
    /\ calls' = Append(calls, Call("create_from"))
    /\ geometry_refine' = CreateFrom(GeometryType, geometry, GeometryCfg, CopyNetArg(cfg))
    /\ pc' = "created"
    /\ UNCHANGED <<cfg, resumed, background, geometry, renderer, trainVars>>

\* lines 80-82: the coarse geometry is deleted and replaced
ReplaceGeometry ==
    /\ pc = "created"
    /\ calls' = calls \o << Call("del_geometry"),
                            [op |-> "cleanup", geom |-> "none"],
                            [op |-> "set_geometry", geom |-> "none"] >>
    /\ geometry' = geometry_refine
    /\ geometry_refine' = NoGeometry
    /\ pc' = "geometry_set"
    /\ UNCHANGED <<cfg, resumed, background, renderer, trainVars>>

\* line 84: the geometry is built directly
DirectGeometry ==
    /\ pc = "branch"
    /\ ~FromCoarseCond(cfg, resumed)
    /\ calls' = Append(calls, Call("construct_geometry"))
    /\ geometry' = NewGeometry("direct", GeometryType, GeometryCfg)
    /\ pc' = "geometry_set"
    /\ UNCHANGED <<cfg, resumed, background, geometry_refine, renderer, trainVars>>

\* lines 86-96: renderer, guidance and prompt processor
ConfigureRenderer ==
    /\ pc = "geometry_set"
    /\ calls' = Append(calls, Call("construct_renderer"))
    /\ renderer' = [built |-> TRUE, geometry |-> geometry]
    /\ pc' = "done"
    /\ UNCHANGED <<cfg, resumed, background, geometry, geometry_refine, trainVars>>

Next ==
    \/ ConfigureBackground
    \/ ConstructCoarse
    \/ LoadWeights
    \/ CreateRefined
    \/ ReplaceGeometry
    \/ DirectGeometry
    \/ ConfigureRenderer

Spec == Init /\ [][Next]_vars

\* ------------------------------------------------------------------------
\* training_step()
\* ------------------------------------------------------------------------
\* the values C(cfg.loss.lambda_X) can take at a step
Lambdas == {0, MaxLambda}
RgbLambdas == {-1, 0, MaxLambda}

\* line 123: the reference view is rendered and compared
RefEnabled_NonNegative(lam) == lam[lambda_rgb] >= 0

RefEnabled(lam) == lam[lambda_rgb] > 0

\* line 141
DepthEnabled(lam) == lam[lambda_depth] > 0

\* lines 129-150: the keys of ref_out, in insertion order
RefOut(lam) ==
    <<loss_rgb, loss_mask>> \o (IF DepthEnabled(lam) THEN <<loss_depth>> ELSE <<>>)

\* lines 152-157 and 174-177: the loop over the entries of a dictionary
RECURSIVE AccumulateLoss_Unweighted(_, _, _, _)
AccumulateLoss_Unweighted(l, names, val, lam) ==
    IF names = <<>> THEN l
    ELSE LET name == Head(names)
         IN AccumulateLoss_Unweighted(
                IF StartsWithLoss(name) THEN FAdd(l, val[name]) ELSE l,
                Tail(names), val, lam)

RECURSIVE AccumulateLoss(_, _, _, _)
AccumulateLoss(l, names, val, lam) ==
    IF names = <<>> THEN l
    ELSE LET name == Head(names)
         IN AccumulateLoss(
                IF StartsWithLoss(name)
                    THEN FAdd(l, FMul(val[name], lam[ReplaceLoss(name)]))
                    ELSE l,
                Tail(names), val, lam)

\* the keys logged by such a loop
LoggedKeys(names) == { TrainKey(names[i]) : i \in 1 .. Len(names) }

\* lines 120-157: the reference stage
RefStage(in) ==
    IF RefEnabled(in.lam)
        THEN [ loss |-> AccumulateLoss(0, RefOut(in.lam), in.val, in.lam),
               added |-> SelectSeq(RefOut(in.lam), StartsWithLoss),
               logged |-> LoggedKeys(RefOut(in.lam)),
               renders |-> <<"reference">>,
               ref_read |-> TRUE ]
        ELSE [ loss |-> 0, added |-> <<>>, logged |-> {}, renders |-> <<>>,
               ref_read |-> FALSE ]

\* lines 162-165
GuidanceEval_Unguarded(c, step) ==
    /\ c.guidance_eval_freq # 0
    /\ PyMod(step, c.guidance_eval_freq) = 0

GuidanceEval(c, step) ==
    /\ c.guidance_eval_freq > 0
    /\ PyMod(step, c.guidance_eval_freq) = 0

\* lines 160-177: the random-camera render and the guidance terms
GuidanceStage(s, in) ==
    [ s EXCEPT
        !.loss = AccumulateLoss(@, in.guidance_out, in.val, in.lam),
        !.added = @ \o SelectSeq(in.guidance_out, StartsWithLoss),
        !.logged = @ \cup LoggedKeys(in.guidance_out),
        !.renders = Append(@, "random_camera") ]

\* line 179: which set of regularizers applies
CoarseRegularizers_Always(c) == TRUE

CoarseRegularizers(c) == ~c.refinement

\* line 180
OrientEnabled(lam) == lam[lambda_orient] > 0

\* lines 179-184: the step raises ValueError
RaisesValueError_NonNegative(c, in) ==
    /\ CoarseRegularizers(c)
    /\ in.lam[lambda_orient] >= 0
    /\ ~in.has_normal

RaisesValueError(c, in) ==
    /\ CoarseRegularizers(c)
    /\ OrientEnabled(in.lam)
    /\ ~in.has_normal

\* self.log(f"train/{name}", v); loss += v * self.C(self.cfg.loss.lambda_name)
AddTerm(s, name, weight, in) ==
    [ s EXCEPT
        !.loss = FAdd(@, FMul(in.val[name], in.lam[weight])),
        !.added = Append(@, name),
        !.logged = @ \cup {TrainKey(name)} ]

\* lines 179-211: the regularizers of a step that does not raise
RegStage(s, c, in) ==
    IF CoarseRegularizers(c)
        THEN LET s1 == IF OrientEnabled(in.lam)
                           THEN AddTerm(s, loss_orient, lambda_orient, in)
                           ELSE s
                 s2 == AddTerm(s1, loss_sparsity, lambda_sparsity, in)
                 s3 == AddTerm(s2, loss_opaque, lambda_opaque, in)
             IN  AddTerm(s3, loss_z_variance, lambda_z_variance, in)
        ELSE AddTerm(s, loss_normal_consistency, lambda_normal_consistency, in)

\* lines 213-214
ParamKeys == { <<"train_params/">> \o n : n \in LambdaNames }

\* the inputs of a step: the current weights, the values of the terms, whether
\* the render has a "normal" entry, and what the guidance returns
Input(r, f, v, nan, has_normal, gout) ==
    [ lam |-> [n \in LambdaNames |-> IF n = lambda_rgb THEN r ELSE f[n]],
      val |-> [n \in TermNames |-> IF n = nan THEN NaN ELSE v],
      has_normal |-> has_normal,
      guidance_out |-> gout ]

TrainingStep ==
    /\ pc = "done"
    /\ status = "idle"
    /\ \E r \in RgbLambdas, f \in [LambdaNames \ {lambda_rgb} -> Lambdas],
          v \in Values, nan \in NaNTerms \cup {<<>>},
          has_normal \in BOOLEAN, gout \in GuidanceOuts :
        LET in == Input(r, f, v, nan, has_normal, gout)
            s1 == GuidanceStage(RefStage(in), in)
            guidance_eval == GuidanceEval(cfg, true_global_step)
        IN  /\ inp' = in
            /\ guidance_called' = TRUE
            /\ guidance_flag' = guidance_eval
            /\ IF RaisesValueError(cfg, in)
                   THEN /\ status' = "raised"
                        /\ loss' = s1.loss
                        /\ added' = s1.added
                        /\ logged' = s1.logged
                        /\ renders' = s1.renders
                        /\ ref_read' = s1.ref_read
                        /\ save_called' = FALSE
                   ELSE LET s2 == RegStage(s1, cfg, in)
                        IN  /\ status' = "returned"
                            /\ loss' = s2.loss
                            /\ added' = s2.added
                            /\ logged' = s2.logged \cup ParamKeys \cup {<<"train/", "loss">>}
                            /\ renders' = s2.renders
                            /\ ref_read' = s2.ref_read
                            /\ save_called' = guidance_eval
    /\ UNCHANGED <<confVars, true_global_step>>

\* the trainer moves to the next step; the locals of the last call are gone
AdvanceStep ==
    /\ status = "returned"
    /\ true_global_step < MaxStep
    /\ true_global_step' = true_global_step + 1
    /\ status' = "idle"
    /\ inp' = NoInput
    /\ loss' = 0
    /\ added' = <<>>
    /\ logged' = {}
    /\ renders' = <<>>
    /\ ref_read' = FALSE
    /\ guidance_called' = FALSE
    /\ guidance_flag' = FALSE
    /\ save_called' = FALSE
    /\ UNCHANGED confVars

\* the runs whose geometry is built directly
TrainConfigs ==
    { c \in Configs :
        /\ c.from_coarse = None
        /\ c.weights = None
        /\ c.inherit_coarse_texture
        /\ c.coarse_geometry_override = EmptyDict }

\* the state configure() leaves for such a run
InitTrain ==
    /\ cfg \in TrainConfigs
    /\ resumed = FALSE
    /\ pc = "done"
    /\ background = [built |-> TRUE, requires_grad |-> ~FreezeBackground(cfg, resumed),
                     params |-> "init"]
    /\ geometry = NewGeometry("direct", GeometryType, GeometryCfg)
    /\ geometry_refine = NoGeometry
    /\ renderer = [built |-> TRUE, geometry |-> NewGeometry("direct", GeometryType, GeometryCfg)]
    /\ calls = << [op |-> "construct_geometry", geom |-> "none"],
                  [op |-> "construct_renderer", geom |-> "direct"] >>
    /\ IdleTrain

NextTrain ==
    \/ TrainingStep
    \/ AdvanceStep

SpecTrain == InitTrain /\ [][NextTrain]_vars

\* ------------------------------------------------------------------------
\* Properties of configure()
\* ------------------------------------------------------------------------
Ops == { calls[i].op : i \in 1 .. Len(calls) }

\* position of the first call of op, 0 when there is none
FirstCall(op) ==
    IF op \in Ops
        THEN CHOOSE i \in 1 .. Len(calls) :
                /\ calls[i].op = op
                /\ \A j \in 1 .. (i - 1) : calls[j].op # op
        ELSE 0

PastBranch == pc \notin {"start", "branch"}

\* the four conditions, read off the configuration
AllFourHold ==
    /\ cfg.refinement = TRUE
    /\ cfg.from_coarse \notin {None, ""}
    /\ cfg.weights \in {None, ""}
    /\ resumed = FALSE

CoarseOps == {"load_config", "construct_coarse", "load_weights", "create_from"}

\* C1: once configure() has passed its branch, it is on the coarse-initialisation
\* path (the coarse config is loaded, and at the end the geometry is the one
\* created from the coarse geometry) if and only if refinement is true,
\* from_coarse is set (non-empty), weights is not set and the run is not
\* resumed; otherwise the geometry is the one built directly from
\* cfg.geometry_type / cfg.geometry and none of load_config, load_weights,
\* create_from has been called.
C1_CoarseIffAllFour ==
    PastBranch =>
        /\ ("load_config" \in Ops) <=> AllFourHold
        /\ (pc = "done") => ((geometry.obj = "refined") <=> AllFourHold)
        /\ ~AllFourHold =>
              /\ Ops \cap CoarseOps = {}
              /\ geometry = [obj |-> "direct", type |-> GeometryType,
                             cfg |-> GeometryCfg, net |-> "init"]

C1_Witness ==
    /\ pc = "done"
    /\ geometry.obj = "refined"
    /\ "load_weights" \in Ops

OnCoarsePathEnd ==
    /\ pc \in {"geometry_set", "done"}
    /\ "create_from" \in Ops

CoarseOrder ==
    << "load_config", "construct_coarse", "load_weights", "create_from",
       "del_geometry", "set_geometry", "construct_renderer" >>

\* C8: on the coarse path the coarse geometry is constructed from the coarse
\* run's geometry config with coarse_geometry_override on top, load_weights is
\* called while self.geometry is the coarse geometry, then the refined geometry
\* is created from it, then the coarse one is deleted and self.geometry set;
\* on both paths the renderer is constructed after self.geometry has its final
\* value and is never bound to the coarse geometry.
C8_ConfigureOrder ==
    /\ \A i \in 1 .. Len(CoarseOrder), j \in 1 .. Len(CoarseOrder) :
          (i < j /\ CoarseOrder[j] \in Ops /\ "load_config" \in Ops) =>
              /\ CoarseOrder[i] \in Ops
              /\ FirstCall(CoarseOrder[i]) < FirstCall(CoarseOrder[j])
    /\ \A i \in 1 .. Len(calls) :
          /\ calls[i].op \in {"load_weights", "create_from", "del_geometry"}
                => calls[i].geom = "coarse"
          /\ calls[i].op = "construct_renderer"
                => calls[i].geom \in {"refined", "direct"}
          /\ calls[i].op = "construct_renderer" => i = Len(calls)
    /\ geometry.obj = "coarse" =>
          /\ geometry.type = CoarseGeometryType
          /\ \A k \in DOMAIN cfg.coarse_geometry_override :
                geometry.cfg[k] = cfg.coarse_geometry_override[k]
          /\ \A k \in (DOMAIN CoarseGeometryCfg) \ (DOMAIN cfg.coarse_geometry_override) :
                geometry.cfg[k] = CoarseGeometryCfg[k]
          /\ (geometry.net = "coarse_trained") <=> ("load_weights" \in Ops)
    /\ renderer.built =>
          /\ pc = "done"
          /\ renderer.geometry = geometry
          /\ geometry.obj \in {"refined", "direct"}
    /\ (pc = "done") => renderer.built

C8_Witness ==
    /\ pc = "done"
    /\ renderer.geometry.obj = "refined"
    /\ cfg.coarse_geometry_override # EmptyDict
    /\ FirstCall("load_weights") = 3

\* C9: once the background is built it is frozen if and only if cfg.refinement
\* is true, whichever path configure() takes.
C9_FrozenIffRefinement ==
    (pc # "start") =>
        /\ background.built
        /\ (background.requires_grad = FALSE) <=> (cfg.refinement = TRUE)

C9_Witness ==
    /\ pc = "done"
    /\ cfg.refinement
    /\ resumed
    /\ geometry.obj = "direct"
    /\ background.requires_grad = FALSE

\* ------------------------------------------------------------------------
\* Properties of training_step()
\* ------------------------------------------------------------------------
AddedSet == { added[i] : i \in 1 .. Len(added) }

\* lambda_X for a term loss_X
LambdaOf(name) == <<"lambda_">> \o Tail(name)

\* value(loss_X) * C(cfg.loss.lambda_X)
Product(name) == FMul(inp.val[name], inp.lam[LambdaOf(name)])

\* the sum of the products of the terms of a sequence, skipping position skip
RECURSIVE SumProducts(_, _, _)
SumProducts(names, i, skip) ==
    IF i > Len(names) THEN 0
    ELSE FAdd(IF i = skip THEN 0 ELSE Product(names[i]), SumProducts(names, i + 1, skip))

\* the entries of ref_out and guidance_out a step has seen
SeenEntries ==
    { inp.guidance_out[i] : i \in 1 .. Len(inp.guidance_out) }
        \cup (IF inp.lam[lambda_rgb] > 0 THEN {loss_rgb, loss_mask} ELSE {})
        \cup (IF inp.lam[lambda_rgb] > 0 /\ inp.lam[lambda_depth] > 0
                 THEN {loss_depth} ELSE {})

SumAndNonLoss ==
    /\ loss = SumProducts(added, 1, 0)
    /\ \A n \in SeenEntries :
          /\ TrainKey(n) \in logged
          /\ (n[1] # "loss_") => n \notin AddedSet
    /\ \A n \in AddedSet : n[1] = "loss_"

\* C3 as stated: the returned loss is the sum of value * weight over the terms
\* added, a term whose weight is 0 contributes nothing, and entries not named
\* loss_* are logged but never added.
C3_Original ==
    (status = "returned") =>
        /\ SumAndNonLoss
        /\ \A i \in 1 .. Len(added) :
              (inp.lam[LambdaOf(added[i])] = 0) => loss = SumProducts(added, 1, i)

\* C3 amended: as stated, except that a term whose weight is 0 contributes
\* nothing only if its value is not NaN; a NaN value times 0 is NaN and makes
\* the returned loss NaN.
C3_SumOfProducts ==
    (status = "returned") =>
        /\ SumAndNonLoss
        /\ \A i \in 1 .. Len(added) :
              (inp.lam[LambdaOf(added[i])] = 0) =>
                 IF inp.val[added[i]] # NaN
                     THEN loss = SumProducts(added, 1, i)
                     ELSE loss = NaN

C3_Witness ==
    /\ status = "returned"
    /\ loss > MaxLambda
    /\ grad_norm \in SeenEntries
    /\ inp.lam[lambda_sparsity] = 0
    /\ inp.lam[lambda_mask] = MaxLambda
    /\ loss_mask \in AddedSet

ReconstructionTerms == {loss_rgb, loss_mask, loss_depth}

\* C4: the rgb and mask terms are added exactly when the current lambda_rgb is
\* > 0 and the depth term exactly when also lambda_depth > 0; when lambda_rgb
\* <= 0 no reconstruction term is added, the reference fields are not read and
\* only the random-camera view is rendered; the random-camera render and the
\* guidance call happen on every step.
C4_ReconstructionGate ==
    (status # "idle") =>
        /\ (loss_rgb \in AddedSet) <=> (inp.lam[lambda_rgb] > 0)
        /\ (loss_mask \in AddedSet) <=> (inp.lam[lambda_rgb] > 0)
        /\ (loss_depth \in AddedSet) <=>
              (inp.lam[lambda_rgb] > 0 /\ inp.lam[lambda_depth] > 0)
        /\ (inp.lam[lambda_rgb] > 0) =>
              /\ ref_read
              /\ renders = <<"reference", "random_camera">>
        /\ (inp.lam[lambda_rgb] <= 0) =>
              /\ AddedSet \cap ReconstructionTerms = {}
              /\ \A n \in ReconstructionTerms : TrainKey(n) \notin logged
              /\ ~ref_read
              /\ renders = <<"random_camera">>
        /\ guidance_called

C4_Witness ==
    /\ status = "returned"
    /\ inp.lam[lambda_rgb] = 0
    /\ inp.lam[lambda_mask] > 0
    /\ inp.lam[lambda_depth] > 0
    /\ guidance_called

\* guidance_eval_freq > 0 and true_global_step a multiple of it
Periodic ==
    IF cfg.guidance_eval_freq > 0
        THEN true_global_step % cfg.guidance_eval_freq = 0
        ELSE FALSE

\* C5 as stated: in every step guidance_evaluation_save is called if and only
\* if guidance_eval_freq > 0 and true_global_step is a multiple of it, and that
\* boolean is the flag passed to the guidance.
C5_Original ==
    (status # "idle") =>
        /\ save_called <=> Periodic
        /\ guidance_flag <=> Periodic
        /\ (cfg.guidance_eval_freq <= 0) => ~save_called
        /\ (cfg.guidance_eval_freq = 1) => save_called

\* C5 amended: the flag passed to the guidance is that boolean in every step;
\* guidance_evaluation_save is called if and only if it is true in every step
\* that does not raise, and is not called in a step that raises ValueError.
C5_PeriodicSave ==
    (status # "idle") =>
        /\ guidance_called
        /\ guidance_flag <=> Periodic
        /\ (status = "returned") =>
              /\ save_called <=> Periodic
              /\ (cfg.guidance_eval_freq <= 0) => ~save_called
              /\ (cfg.guidance_eval_freq = 1) => save_called
        /\ (status = "raised") => ~save_called

C5_Witness ==
    /\ status = "returned"
    /\ cfg.guidance_eval_freq = 1
    /\ true_global_step = MaxStep
    /\ true_global_step > 0
    /\ save_called

CoarseTerms == {loss_orient, loss_sparsity, loss_opaque, loss_z_variance}

\* the stage sets never mix: refinement adds and logs no coarse regularizer,
\* the coarse stage adds and logs no normal-consistency term
StagesExclusive ==
    /\ (cfg.refinement = FALSE) =>
          /\ loss_normal_consistency \notin AddedSet
          /\ TrainKey(loss_normal_consistency) \notin logged
    /\ (cfg.refinement = TRUE) =>
          /\ AddedSet \cap CoarseTerms = {}
          /\ \A n \in CoarseTerms : TrainKey(n) \notin logged

\* C6 as stated: when refinement is false the sparsity, opacity and
\* depth-variance terms are always added (and orientation when lambda_orient
\* > 0) and normal consistency never; when refinement is true only normal
\* consistency is added.
C6_Original ==
    (status # "idle") =>
        /\ StagesExclusive
        /\ (cfg.refinement = FALSE) =>
              /\ {loss_sparsity, loss_opaque, loss_z_variance} \subseteq AddedSet
              /\ (inp.lam[lambda_orient] > 0) => loss_orient \in AddedSet
        /\ (cfg.refinement = TRUE) => loss_normal_consistency \in AddedSet

\* C6 amended: the two sets are mutually exclusive in every step; in every step
\* that does not raise ValueError the coarse stage adds sparsity, opacity and
\* depth variance, and orientation exactly when lambda_orient > 0, and the
\* refinement stage adds normal consistency.  A step that raises adds none.
C6_StageRegularizers ==
    (status # "idle") =>
        /\ StagesExclusive
        /\ (status = "returned" /\ cfg.refinement = FALSE) =>
              /\ {loss_sparsity, loss_opaque, loss_z_variance} \subseteq AddedSet
              /\ (loss_orient \in AddedSet) <=> (inp.lam[lambda_orient] > 0)
        /\ (cfg.refinement = TRUE) =>
              /\ status = "returned"
              /\ loss_normal_consistency \in AddedSet
        /\ (status = "raised") =>
              AddedSet \cap (CoarseTerms \cup {loss_normal_consistency}) = {}

C6_Witness ==
    /\ status = "returned"
    /\ cfg.refinement = FALSE
    /\ loss_orient \in AddedSet
    /\ loss_z_variance \in AddedSet
    /\ inp.lam[lambda_normal_consistency] > 0

\* C7: a step raises ValueError exactly when refinement is false, the current
\* lambda_orient is > 0 and the render has no "normal" entry; then train/loss
\* is not logged and guidance_evaluation_save is not called.
C7_ValueErrorExactly ==
    (status # "idle") =>
        /\ (status = "raised") <=>
              (cfg.refinement = FALSE /\ inp.lam[lambda_orient] > 0 /\ ~inp.has_normal)
        /\ (status = "raised") =>
              /\ <<"train/", "loss">> \notin logged
              /\ ParamKeys \cap logged = {}
              /\ ~save_called
        /\ (status = "returned") => <<"train/", "loss">> \in logged
        /\ (cfg.refinement = TRUE \/ inp.lam[lambda_orient] <= 0) => status = "returned"

C7_Witness ==
    /\ status = "raised"
    /\ guidance_flag
    /\ ~save_called
    /\ inp.lam[lambda_orient] > 0

====
